---------------------------- MODULE Spec2Model ----------------------------
(***************************************************************************)
(* Message composer (MessageBox.tsx) and snippet segmentation parser       *)
(* (UserContentBlock.tsx).                                                 *)
(*                                                                         *)
(* Text is a sequence of one-character strings.  Offsets are 0-based as in *)
(* the source; substring's end is exclusive.                               *)
(***************************************************************************)
EXTENDS Integers, Sequences, FiniteSets, TLC

(***************************************************************************)
(* Configuration (constants/appConstants, imported at MessageBox.tsx       *)
(* 15-21).  The module is not among the sources; the values below are a    *)
(* small configuration.  The markers keep the shape of dash-delimited      *)
(* sentinels: they share their first and last character, so occurrences    *)
(* can overlap each other.                                                 *)
(***************************************************************************)
SNIPPET_MARKERS_begin == <<"-", "B", "-">>

SNIPPET_MARKERS_end == <<"-", "E", "-">>

MAX_ROWS == 2

MAX_IMAGE_ATTACHMENTS_PER_MESSAGE == 2

\* The characters per row of `pastedText.length > 80 * MAX_ROWS`: 80 in the
\* source, scaled down as MAX_ROWS is, so that a payload longer than
\* COLUMNS_PER_ROW * MAX_ROWS is a short text.
COLUMNS_PER_ROW == 3

(***************************************************************************)
(* Bounds of the model.                                                    *)
(***************************************************************************)
\* Parser inputs are concatenations of at most MaxPieces pieces.
MaxPieces == 4

Char == {"a", "\n", "-", "B", "E"}

NL == <<"\n">>

(***************************************************************************)
(* JavaScript string primitives.                                           *)
(***************************************************************************)
Min(a, b) == IF a <= b THEN a ELSE b

Max(a, b) == IF a >= b THEN a ELSE b

\* m occurs in s at 0-based offset i
OccursAt(s, m, i) ==
    /\ i >= 0
    /\ i + Len(m) <= Len(s)
    /\ SubSeq(s, i + 1, i + Len(m)) = m

\* String.prototype.includes
includes(s, m) == \E i \in 0..Len(s) : OccursAt(s, m, i)

\* String.prototype.indexOf: first occurrence, or -1
indexOf(s, m) ==
    IF includes(s, m)
    THEN CHOOSE i \in 0..Len(s) :
             OccursAt(s, m, i) /\ \A j \in 0..(i - 1) : ~OccursAt(s, m, j)
    ELSE -1

\* String.prototype.substring(a, b): arguments clamped to [0, length] and
\* swapped when a > b
substring(s, a, b) ==
    LET ca == Max(0, Min(a, Len(s)))
        cb == Max(0, Min(b, Len(s)))
    IN  SubSeq(s, Min(ca, cb) + 1, Max(ca, cb))

\* String.prototype.substring(a): to the end of the string
substringFrom(s, a) == substring(s, a, Len(s))

\* String.prototype.split(separator), separator non-empty: the pieces between
\* the leftmost non-overlapping occurrences
RECURSIVE split(_, _)
split(s, sep) ==
    LET i == indexOf(s, sep)
    IN  IF i = -1
        THEN <<s>>
        ELSE <<substring(s, 0, i)>> \o split(substringFrom(s, i + Len(sep)), sep)

WhiteSpace == {" ", "\n"}

\* String.prototype.trim
RECURSIVE trim(_)
trim(s) ==
    IF s = <<>> THEN s
    ELSE IF Head(s) \in WhiteSpace THEN trim(Tail(s))
    ELSE IF s[Len(s)] \in WhiteSpace THEN trim(SubSeq(s, 1, Len(s) - 1))
    ELSE s

\* (pastedText.match(/\n/g) || []).length
newlineCount(s) == Cardinality({i \in DOMAIN s : s[i] = "\n"})

(***************************************************************************)
(* Snippet segmentation parser.                                            *)
(***************************************************************************)
\* renderMarkdownSection: a markdown block of the content (an empty fragment
\* when the content is empty; it is still an element of the list)
Prose(content) == [kind |-> "Prose", text |-> content]

\* <FoldableTextSection content={snippet}/>
Snippet(content) == [kind |-> "Snippet", text |-> content]

\* Mutation of processSection: the newlines of the wrapping format are
\* stripped from the snippet.
processSectionStripped(section, index) ==
    IF index = 0 /\ ~includes(section, SNIPPET_MARKERS_end)
    THEN <<Prose(section)>>
    ELSE LET endSnippetIndex == indexOf(section, SNIPPET_MARKERS_end)
             snippet == substring(section, 1, endSnippetIndex - 1)
             remainingText ==
                 substringFrom(section, endSnippetIndex + Len(SNIPPET_MARKERS_end))
         IN  IF endSnippetIndex # -1
             THEN <<Snippet(snippet)>>
                  \o (IF remainingText # <<>> THEN <<Prose(remainingText)>> ELSE <<>>)
             ELSE <<Prose(section)>>

\* Mutation of processSection: a piece that follows a begin marker and has no
\* end marker is taken as a snippet up to the end of the text.
processSectionGreedy(section, index) ==
    IF index = 0 /\ ~includes(section, SNIPPET_MARKERS_end)
    THEN <<Prose(section)>>
    ELSE LET endSnippetIndex == indexOf(section, SNIPPET_MARKERS_end)
             snippet == substring(section, 0, endSnippetIndex)
             remainingText ==
                 substringFrom(section, endSnippetIndex + Len(SNIPPET_MARKERS_end))
         IN  IF endSnippetIndex # -1
             THEN <<Snippet(snippet)>>
                  \o (IF remainingText # <<>> THEN <<Prose(remainingText)>> ELSE <<>>)
             ELSE <<Snippet(section)>>

\* Mutation of processSection: the text after the end marker is dropped.
processSectionDropsRest(section, index) ==
    IF index = 0 /\ ~includes(section, SNIPPET_MARKERS_end)
    THEN <<Prose(section)>>
    ELSE LET endSnippetIndex == indexOf(section, SNIPPET_MARKERS_end)
             snippet == substring(section, 0, endSnippetIndex)
         IN  IF endSnippetIndex # -1
             THEN <<Snippet(snippet)>>
             ELSE <<Prose(section)>>

\* The body of the forEach callback of processText: the elements one piece
\* of the split contributes
processSection(section, index) ==
    IF index = 0 /\ ~includes(section, SNIPPET_MARKERS_end)
    THEN <<Prose(section)>>
    ELSE LET endSnippetIndex == indexOf(section, SNIPPET_MARKERS_end)
             snippet == substring(section, 0, endSnippetIndex)
             remainingText ==
                 substringFrom(section, endSnippetIndex + Len(SNIPPET_MARKERS_end))
         IN  IF endSnippetIndex # -1
             THEN <<Snippet(snippet)>>
                  \o (IF remainingText # <<>> THEN <<Prose(remainingText)>> ELSE <<>>)
             ELSE <<Prose(section)>>

RECURSIVE processPieces(_, _)
processPieces(pieces, index) ==
    IF pieces = <<>> THEN <<>>
    ELSE processSection(Head(pieces), index) \o processPieces(Tail(pieces), index + 1)

processText(inputText) == processPieces(split(inputText, SNIPPET_MARKERS_begin), 0)

\* `${SNIPPET_MARKERS.begin}\n${pastedText}\n${SNIPPET_MARKERS.end}\n`
modifiedText(pastedText) ==
    SNIPPET_MARKERS_begin \o NL \o pastedText \o NL \o SNIPPET_MARKERS_end \o NL

\* The name of the picked text file
FileName == <<"f">>

\* `File: ${file.name}:\n${SNIPPET_MARKERS.begin}\n${textContent}\n${SNIPPET_MARKERS.end}\n`
formattedText(name, textContent) ==
    <<"F", "i", "l", "e", ":", " ">> \o name \o <<":">> \o NL
        \o SNIPPET_MARKERS_begin \o NL \o textContent \o NL
        \o SNIPPET_MARKERS_end \o NL

containsMarker(text) ==
    includes(text, SNIPPET_MARKERS_begin) \/ includes(text, SNIPPET_MARKERS_end)

(***************************************************************************)
(* The rendering of a stored message (UserContentBlock).                   *)
(***************************************************************************)
VARIABLES
    text,       \* the text prop of UserContentBlock
    wrapped,    \* the payload the text was wrapped from, or NoText
    content,    \* the result of processText(text), or NotRendered
    stage       \* "stored" | "wrapped" | "rendered"

parserVars == <<text, wrapped, content, stage>>

NoText == <<"none">>

NotRendered == <<"not rendered">>

(***************************************************************************)
(* Composer state (MessageBox.tsx).                                        *)
(***************************************************************************)
VARIABLES
    textValue,            \* textValue.current: the Buffer
    draftText,            \* React state bound to the textarea's value prop
    isTextEmpty,          \* React state: the is-empty flag
    fileDataRef,          \* React state: the Attachment Store
    isExpanded,           \* React state: CompositionMode (TRUE = expanded)
    selectionRef,         \* selectionRef.current: the recorded Selection
    textArea,             \* the textarea element textAreaRef.current points to
    resizeTimeout,        \* the pending debounced resize, or NoTimer
    timeouts,             \* queue of pending setTimeout(..., 0) callbacks
    loading,              \* prop: a send is outstanding
    allowImageAttachment, \* prop: "yes" | "no" | "warn"
    decodes,              \* image decodes in flight
    nextFile,             \* number of image files offered so far
    picker,               \* the open file dialog, or NoPicker
    storeUpdates,         \* attachments whose setFileDataRef updater is queued,
                          \* in queue order, until the next render applies them
    defaultAction,        \* the browser's default action of the event being
                          \* dispatched, still to be performed, or NoDefault
    event,                \* the last handler that ran, its inputs and outputs
    scope                 \* the inputs the environment offers in this behaviour

composerVars ==
    <<textValue, draftText, isTextEmpty, fileDataRef, isExpanded, selectionRef,
      textArea, resizeTimeout, timeouts, loading, allowImageAttachment, decodes,
      nextFile, picker, storeUpdates, defaultAction, event, scope>>

NoTimer == [pending |-> FALSE]

NoPicker == [open |-> FALSE]

NoDefault == [kind |-> "none"]

Sel(a, b) == [start |-> a, end |-> b]

\* The component's mutable state as one value: handlers are compositions of
\* functions on it.
Cur ==
    [textValue |-> textValue, draftText |-> draftText, isTextEmpty |-> isTextEmpty,
     fileDataRef |-> fileDataRef, isExpanded |-> isExpanded,
     selectionRef |-> selectionRef, textArea |-> textArea,
     resizeTimeout |-> resizeTimeout, timeouts |-> timeouts]

Commit(s) ==
    /\ textValue' = s.textValue
    /\ draftText' = s.draftText
    /\ isTextEmpty' = s.isTextEmpty
    /\ fileDataRef' = s.fileDataRef
    /\ isExpanded' = s.isExpanded
    /\ selectionRef' = s.selectionRef
    /\ textArea' = s.textArea
    /\ resizeTimeout' = s.resizeTimeout
    /\ timeouts' = s.timeouts

(***************************************************************************)
(* The textarea element.                                                   *)
(***************************************************************************)
\* The selection of the element, as `selectionStart || 0`, `selectionEnd || 0`
\* read it
widgetSelection(s) == Sel(s.textArea.selectionStart, s.textArea.selectionEnd)

\* Assigning selectionStart and selectionEnd: offsets beyond the value are
\* clamped to its length
setWidgetSelection(s, sel) ==
    LET n == Len(s.textArea.value)
        a == Min(sel.start, n)
        b == Min(sel.end, n)
    IN  [s EXCEPT !.textArea.selectionStart = Min(a, b), !.textArea.selectionEnd = b]

\* Assigning textArea.value: a value that differs from the current one moves
\* the cursor to the end of the text
setWidgetValue(s, value) ==
    IF value = s.textArea.value THEN s
    ELSE [s EXCEPT !.textArea.value = value,
                   !.textArea.selectionStart = Len(value),
                   !.textArea.selectionEnd = Len(value)]

\* The value with the range [a, b) replaced by ins
Splice(value, a, b, ins) == substring(value, 0, a) \o ins \o substringFrom(value, b)

(***************************************************************************)
(* Helpers of the component.                                               *)
(***************************************************************************)
\* focusComposer: setTimeout(() => {focus; restore selectionRef}, 0)
focusComposer(s) == [s EXCEPT !.timeouts = Append(@, [kind |-> "restore"])]

\* Ids of the timers of one burst of resize requests: window.setTimeout returns
\* another id for each, counted here from 0 and reused cyclically.
ResizeTimerIds == 3

\* Mutation of debouncedResize: a pending timer is left to run and no other is
\* set.
debouncedResizeLeading(s, renderExpanded) ==
    IF s.resizeTimeout.pending THEN s
    ELSE [s EXCEPT !.resizeTimeout =
              [pending |-> TRUE, expanded |-> renderExpanded, id |-> 0]]

\* debouncedResize: the pending timer is cleared and a new one is set; the
\* callback is the handleAutoResize of the render that made it, with that
\* render's isExpanded
debouncedResize(s, renderExpanded) ==
    [s EXCEPT !.resizeTimeout =
         [pending |-> TRUE, expanded |-> renderExpanded,
          id |-> IF @.pending THEN (@.id + 1) % ResizeTimerIds ELSE 0]]

\* handleAutoResize of a render with the given isExpanded
handleAutoResize(s, renderExpanded) ==
    [s EXCEPT !.textArea.height = IF renderExpanded THEN "100%" ELSE "px"]

\* Mutation of setTextAreaValue: the is-empty flag is left as it was.
setTextAreaValueKeepFlag(s, value, renderExpanded) ==
    LET s1 == [s EXCEPT !.draftText = value, !.textValue = value]
        s2 == setWidgetValue(s1, value)
        s3 == [s2 EXCEPT !.selectionRef = Sel(Len(value), Len(value))]
    IN  debouncedResize(s3, renderExpanded)

\* Mutation of setTextAreaValue: the flag compares the untrimmed value.
setTextAreaValueUntrimmed(s, value, renderExpanded) ==
    LET s1 == [s EXCEPT !.draftText = value, !.textValue = value,
                        !.isTextEmpty = (value = <<>>)]
        s2 == setWidgetValue(s1, value)
        s3 == [s2 EXCEPT !.selectionRef = Sel(Len(value), Len(value))]
    IN  debouncedResize(s3, renderExpanded)

setTextAreaValue(s, value, renderExpanded) ==
    LET s1 == [s EXCEPT !.draftText = value, !.textValue = value,
                        !.isTextEmpty = (trim(value) = <<>>)]
        s2 == setWidgetValue(s1, value)
        s3 == [s2 EXCEPT !.selectionRef = Sel(Len(value), Len(value))]
    IN  debouncedResize(s3, renderExpanded)

insertTextAtCursorPosition(s, textToInsert, renderExpanded) ==
    LET startPos == s.textArea.selectionStart
        endPos == s.textArea.selectionEnd
        newTextValue == Splice(s.textArea.value, startPos, endPos, textToInsert)
        s1 == setTextAreaValue([s EXCEPT !.textValue = newTextValue],
                               newTextValue, renderExpanded)
        newCursorPos == startPos + Len(textToInsert)
        s2 == [s1 EXCEPT !.selectionRef = Sel(newCursorPos, newCursorPos)]
    IN  [s2 EXCEPT !.timeouts =
             Append(@, [kind |-> "cursor", pos |-> newCursorPos, attached |-> TRUE])]

\* Mutation of handleTextChange: the text ref is not written.
handleTextChangeKeepRef(s, renderExpanded) ==
    LET newValue == s.textArea.value
        s1 == [s EXCEPT !.selectionRef = widgetSelection(s),
                        !.isTextEmpty = (trim(newValue) = <<>>),
                        !.draftText = newValue]
    IN  debouncedResize(s1, renderExpanded)

\* handleTextChange, run on the input event of a native edit
handleTextChange(s, renderExpanded) ==
    LET newValue == s.textArea.value
        s1 == [s EXCEPT !.selectionRef = widgetSelection(s),
                        !.isTextEmpty = (trim(newValue) = <<>>),
                        !.draftText = newValue,
                        !.textValue = newValue]
    IN  debouncedResize(s1, renderExpanded)

\* The render after isExpanded changed returns the other layout: the textarea
\* is another element.  Its value is draftText, it has no inline height, and
\* its cursor is where the browser puts it (caret: the start or the end of
\* the text).  Callbacks that captured the old element no longer reach it.
mountTextarea(s, caret) ==
    [s EXCEPT !.textArea = [value |-> s.draftText, selectionStart |-> caret,
                            selectionEnd |-> caret, height |-> "unset"],
              !.timeouts = [i \in DOMAIN @ |->
                               IF @[i].kind \in {"cursor", "end"}
                               THEN [@[i] EXCEPT !.attached = FALSE]
                               ELSE @[i]]]

\* useEffect(..., [focusComposer, isExpanded]) for the value of isExpanded the
\* render has
expandedEffect(s) ==
    IF s.isExpanded
    THEN [s EXCEPT !.timeouts = Append(@, [kind |-> "restore"])]
    ELSE focusComposer(
             setWidgetSelection([s EXCEPT !.textArea.height = "auto"], s.selectionRef))

\* The render and the effects that follow a handler: nothing when isExpanded
\* is as before
rerender(before, s, caret) ==
    IF s.isExpanded = before.isExpanded THEN s
    ELSE expandedEffect(mountTextarea(s, caret))

Carets(s) == {0, Len(s.draftText)}

(***************************************************************************)
(* Inputs of the model.                                                    *)
(***************************************************************************)
\* A native edit is offered while the text it leaves is at most this long.
MaxLen == 2

\* The user puts the cursor at offsets up to MaxCursor, or at the end.
MaxCursor == 1

\* Image files offered in one behaviour, over all pastes and picks.
MaxFiles == 3

\* Image items of one clipboard event, image files of one pick.
MaxItems == 2

\* Pending setTimeout(..., 0) callbacks.
MaxTimeouts == 3

Rep(c, n) == [i \in 1..n |-> c]

\* 80 * MAX_ROWS
LongLine == COLUMNS_PER_ROW * MAX_ROWS

PlainPayloads ==
    {<<>>, <<"a">>, <<"a", "\n">>, <<"\n", "\n">>,
     Rep("a", LongLine), Rep("a", LongLine + 1), Rep("a", LongLine - 1) \o NL}

MarkerPayloads ==
    {SNIPPET_MARKERS_begin, SNIPPET_MARKERS_end,
     SNIPPET_MARKERS_begin \o NL \o NL \o SNIPPET_MARKERS_end}

Payloads == PlainPayloads \cup MarkerPayloads

\* A scope is what the environment offers in one behaviour: the keys typed,
\* the longest text a native edit leaves, the clipboard payloads, the image
\* files (in all, and per event), and whether events may overtake pending
\* timers (lazy) or every timer fires before the next event.
KeysScope ==
    [keys |-> {"a", "\n"}, maxLen |-> MaxLen, payloads |-> {<<>>},
     maxFiles |-> 1, maxItems |-> 1, lazy |-> FALSE]

PasteScope ==
    [keys |-> {"a"}, maxLen |-> MaxLen, payloads |-> Payloads,
     maxFiles |-> 1, maxItems |-> 1, lazy |-> FALSE]

FilesScope ==
    [keys |-> {"a"}, maxLen |-> MaxLen - 1, payloads |-> {<<>>, <<"a">>},
     maxFiles |-> MaxFiles, maxItems |-> MaxItems, lazy |-> FALSE]

\* The handle, the form, the clipboard and the image picker on a short text
HandleScope ==
    [keys |-> {"a"}, maxLen |-> MaxLen - 1,
     payloads |-> {<<>>, <<"a">>, <<"\n", "\n">>},
     maxFiles |-> 1, maxItems |-> 1, lazy |-> FALSE]

\* Clearing in either mode, with text and an attachment
ClearScope ==
    [keys |-> {"a"}, maxLen |-> MaxLen - 1, payloads |-> {<<>>},
     maxFiles |-> 1, maxItems |-> 1, lazy |-> FALSE]

\* Texts inserted by the clipboard, the handle and the text-file picker
InsertScope ==
    [keys |-> {"a"}, maxLen |-> MaxLen,
     payloads |-> {<<>>, <<"\n", "\n">>, formattedText(FileName, <<>>)},
     maxFiles |-> 1, maxItems |-> 0, lazy |-> FALSE]

\* Bursts of resize requests on a text of one character
DebounceScope ==
    [keys |-> {"a"}, maxLen |-> 1, payloads |-> {<<>>},
     maxFiles |-> 0, maxItems |-> 0, lazy |-> TRUE]

\* Pasted images decoded and removed
RemoveScope ==
    [keys |-> {"a"}, maxLen |-> 0, payloads |-> {<<>>},
     maxFiles |-> MaxFiles, maxItems |-> 1, lazy |-> FALSE]

\* Marker-free texts pasted and picked at every cursor position of a text
\* that holds one wrapped block already
NestScope ==
    [keys |-> {"a"}, maxLen |-> Len(modifiedText(<<"\n", "\n">>)),
     payloads |-> {<<"\n", "\n">>}, maxFiles |-> 1, maxItems |-> 0,
     lazy |-> FALSE]

\* Events overtake the pending timers
LazyScope ==
    [keys |-> {"a"}, maxLen |-> MaxLen, payloads |-> {<<>>},
     maxFiles |-> 0, maxItems |-> 0, lazy |-> TRUE]

CursorStops(value) == {p \in 0..Len(value) : p <= MaxCursor \/ p = Len(value)}

\* The length of the text outside the selection
Unselected(ta) == Len(ta.value) - (ta.selectionEnd - ta.selectionStart)

\* No timer is pending
Quiet == timeouts = <<>> /\ ~resizeTimeout.pending

\* An event can be dispatched: none is being dispatched, and the pending
\* timers have fired unless the scope lets events overtake them
Idle == defaultAction = NoDefault /\ (scope.lazy \/ Quiet)

\* The user can act on the page: no file dialog is open
UserCan == Idle /\ ~picker.open

Room(n) == scope.lazy => Len(timeouts) + n <= MaxTimeouts

\* The last handler that ran, timer callbacks apart
Origin == IF event.op \in {"timeout", "resize"} THEN event.after ELSE event

\* The handler's record in event; the rest of the state is as it was
Did(e) ==
    /\ event' = e
    /\ UNCHANGED <<storeUpdates, scope, text, wrapped, content, stage>>

(***************************************************************************)
(* Native edits of the textarea: the browser changes the element, then the *)
(* input event runs handleTextChange.                                      *)
(***************************************************************************)
\* The browser replaces the range [a, b) of the element's value by ins and
\* puts the cursor after it
nativeReplace(s, a, b, ins) ==
    [s EXCEPT !.textArea.value = Splice(@, a, b, ins),
              !.textArea.selectionStart = a + Len(ins),
              !.textArea.selectionEnd = a + Len(ins)]

nativeInsert(s, ins) ==
    nativeReplace(s, s.textArea.selectionStart, s.textArea.selectionEnd, ins)

TypeChar(c) ==
    /\ UserCan
    /\ Unselected(textArea) + 1 <= scope.maxLen
    /\ Commit(handleTextChange(nativeInsert(Cur, <<c>>), isExpanded))
    /\ Did([op |-> "input"])
    /\ UNCHANGED <<loading, allowImageAttachment, decodes, nextFile, picker,
                   defaultAction>>

DeleteBackward ==
    /\ UserCan
    /\ textArea.selectionEnd > 0
    /\ LET a == IF textArea.selectionStart < textArea.selectionEnd
                THEN textArea.selectionStart
                ELSE textArea.selectionStart - 1
       IN  Len(textArea.value) - (textArea.selectionEnd - a) <= scope.maxLen
    /\ LET a == IF textArea.selectionStart < textArea.selectionEnd
                THEN textArea.selectionStart
                ELSE textArea.selectionStart - 1
       IN  Commit(handleTextChange(
                      nativeReplace(Cur, a, textArea.selectionEnd, <<>>), isExpanded))
    /\ Did([op |-> "input"])
    /\ UNCHANGED <<loading, allowImageAttachment, decodes, nextFile, picker,
                   defaultAction>>

\* The user moves the cursor or selects a range: no handler runs
MoveCursor(a, b) ==
    /\ UserCan
    /\ a <= b
    /\ Sel(a, b) # Sel(textArea.selectionStart, textArea.selectionEnd)
    /\ textArea' = [textArea EXCEPT !.selectionStart = a, !.selectionEnd = b]
    /\ Did([op |-> "select"])
    /\ UNCHANGED <<textValue, draftText, isTextEmpty, fileDataRef, isExpanded,
                   selectionRef, resizeTimeout, timeouts, loading,
                   allowImageAttachment, decodes, nextFile, picker, defaultAction>>

\* The default action of an event no handler prevented: the text is inserted
\* at the selection
NativeDefault ==
    /\ defaultAction.kind = "insert"
    /\ defaultAction' = NoDefault
    /\ Commit(handleTextChange(nativeInsert(Cur, defaultAction.text), isExpanded))
    /\ Did([op |-> "default", text |-> defaultAction.text])
    /\ UNCHANGED <<loading, allowImageAttachment, decodes, nextFile, picker>>

(***************************************************************************)
(* Keyboard and form.                                                      *)
(***************************************************************************)
\* callApp(messageText, attachments), with the loading prop of the render
Call(messageText, attachments) ==
    [text |-> messageText, attachments |-> attachments, loading |-> loading]

\* (allowImageAttachment === 'yes') ? fileDataRef : []
forwarded == IF allowImageAttachment = "yes" THEN fileDataRef ELSE <<>>

\* Mutation of afterSend: the mode is left as it was.
afterSendKeepMode(s) ==
    LET s1 == setTextAreaValue(s, <<>>, isExpanded)
        s2 == [s1 EXCEPT !.selectionRef = Sel(0, 0)]
    IN  focusComposer(s2)

\* What follows callApp in checkForSpecialKey and in handleSubmit:
\* setTextAreaValue(''); setIsExpanded(false); selectionRef.current = {0, 0};
\* focusComposer()
afterSend(s) ==
    LET s1 == setTextAreaValue(s, <<>>, isExpanded)
        s2 == [s1 EXCEPT !.isExpanded = FALSE]
        s3 == [s2 EXCEPT !.selectionRef = Sel(0, 0)]
    IN  focusComposer(s3)

\* Mutation of submitsOnEnter: Enter submits whatever loading is.
submitsOnEnterAlways(shiftKey) == ~shiftKey

\* Mutation of submitsOnEnter: Enter submits whether or not Shift is held.
submitsOnEnterIgnoringShift(shiftKey) == ~loading

\* if (e.shiftKey) return; else if (!loading) {...}
submitsOnEnter(shiftKey) == ~shiftKey /\ ~loading

\* keydown of Enter on the textarea
checkForSpecialKey(shiftKey) ==
    /\ UserCan
    /\ IF submitsOnEnter(shiftKey)
       THEN /\ Room(IF isExpanded THEN 2 ELSE 1)
            /\ LET s1 == [Cur EXCEPT !.selectionRef = widgetSelection(Cur)]
                   messageText == draftText
                   s2 == [s1 EXCEPT !.textValue = messageText]
               IN  /\ Commit(rerender(Cur, afterSend(s2), 0))
                   /\ Did([op |-> "keydown", shiftKey |-> shiftKey,
                                prevented |-> TRUE, wasExpanded |-> isExpanded,
                                wasLoading |-> loading,
                                calls |-> <<Call(messageText, forwarded)>>])
            /\ defaultAction' = NoDefault
       ELSE /\ Unselected(textArea) + 1 <= scope.maxLen
            /\ defaultAction' = [kind |-> "insert", text |-> NL]
            /\ Did([op |-> "keydown", shiftKey |-> shiftKey,
                         prevented |-> FALSE, wasExpanded |-> isExpanded,
                         wasLoading |-> loading, calls |-> <<>>])
            /\ UNCHANGED <<textValue, draftText, isTextEmpty, fileDataRef,
                           isExpanded, selectionRef, textArea, resizeTimeout,
                           timeouts>>
    /\ UNCHANGED <<loading, allowImageAttachment, decodes, nextFile, picker>>

\* renderStopOrSubmit: the submit button is rendered while not loading and is
\* disabled while the text is empty; the stop button is rendered while loading
SubmitEnabled == ~loading /\ ~isTextEmpty

\* Mutation of StopEnabled: the stop button is rendered whatever loading is.
StopAlwaysRendered == TRUE

StopEnabled == loading

\* submit of the form, by its submit button
handleSubmit ==
    /\ UserCan
    /\ SubmitEnabled
    /\ Room(IF isExpanded THEN 2 ELSE 1)
    /\ LET messageText == draftText
           s1 == [Cur EXCEPT !.textValue = messageText]
       IN  /\ Commit(rerender(Cur, afterSend(s1), 0))
           /\ Did([op |-> "submit", wasExpanded |-> isExpanded,
                        calls |-> <<Call(messageText, forwarded)>>])
    /\ UNCHANGED <<loading, allowImageAttachment, decodes, nextFile, picker,
                   defaultAction>>

\* click on the stop button: ChatService.cancelStream(); setLoading(false)
handleCancel ==
    /\ UserCan
    /\ StopEnabled
    /\ loading' = FALSE
    /\ Did([op |-> "cancel", wasExpanded |-> isExpanded, cancelStream |-> 1])
    /\ UNCHANGED <<textValue, draftText, isTextEmpty, fileDataRef, isExpanded,
                   selectionRef, textArea, resizeTimeout, timeouts,
                   allowImageAttachment, decodes, nextFile, picker, defaultAction>>

\* The host changes the loading prop: a send starts or ends
HostSetLoading ==
    /\ Idle
    /\ loading' = ~loading
    /\ Did([op |-> "host"])
    /\ UNCHANGED <<textValue, draftText, isTextEmpty, fileDataRef, isExpanded,
                   selectionRef, textArea, resizeTimeout, timeouts,
                   allowImageAttachment, decodes, nextFile, picker, defaultAction>>

(***************************************************************************)
(* Expand and collapse.                                                    *)
(***************************************************************************)
handleExpandEditor(s) ==
    [s EXCEPT !.selectionRef = widgetSelection(s), !.isExpanded = TRUE]

\* Mutation of handleCollapseEditor: setIsExpanded(false) is missing.
handleCollapseEditorStays(s) ==
    focusComposer([s EXCEPT !.selectionRef = widgetSelection(s)])

handleCollapseEditor(s) ==
    focusComposer([s EXCEPT !.selectionRef = widgetSelection(s),
                            !.isExpanded = FALSE])

\* click on the expand button of the collapsed layout
ExpandClick ==
    /\ UserCan
    /\ ~isExpanded
    /\ Room(1)
    /\ \E caret \in Carets(Cur) : Commit(rerender(Cur, handleExpandEditor(Cur), caret))
    /\ Did([op |-> "expand"])
    /\ UNCHANGED <<loading, allowImageAttachment, decodes, nextFile, picker,
                   defaultAction>>

\* click on the collapse button of the expanded layout
CollapseClick ==
    /\ UserCan
    /\ isExpanded
    /\ Room(2)
    /\ Commit(rerender(Cur, handleCollapseEditor(Cur), 0))
    /\ Did([op |-> "collapse"])
    /\ UNCHANGED <<loading, allowImageAttachment, decodes, nextFile, picker,
                   defaultAction>>

\* keydown of modifier + Shift + E on the window
handleGlobalShortcut ==
    /\ UserCan
    /\ Room(IF isExpanded THEN 2 ELSE 1)
    /\ \E caret \in Carets(Cur) :
           Commit(rerender(Cur,
                           IF isExpanded THEN handleCollapseEditor(Cur)
                           ELSE handleExpandEditor(Cur),
                           caret))
    /\ Did([op |-> "shortcut"])
    /\ UNCHANGED <<loading, allowImageAttachment, decodes, nextFile, picker,
                   defaultAction>>

(***************************************************************************)
(* Paste.                                                                  *)
(***************************************************************************)
\* A file offered as the n-th image of the behaviour
File(n, source) == [id |-> n, source |-> source]

NewFiles(n, source) == {File(nextFile + i, source) : i \in 1..n}

\* Mutation of acceptsImageItems: the prop is not looked at.
acceptsImageItemsAlways == TRUE

\* item.type.indexOf("image") === 0 && allowImageAttachment !== 'no'
acceptsImageItems == allowImageAttachment # "no"

\* Mutation of isOversized: strictly more than MAX_ROWS newlines are needed.
isOversizedStrict(pastedText) ==
    \/ newlineCount(pastedText) > MAX_ROWS
    \/ Len(pastedText) > COLUMNS_PER_ROW * MAX_ROWS

\* newlineCount >= MAX_ROWS || pastedText.length > 80 * MAX_ROWS
isOversized(pastedText) ==
    \/ newlineCount(pastedText) >= MAX_ROWS
    \/ Len(pastedText) > COLUMNS_PER_ROW * MAX_ROWS

\* Mutation of wrapsPaste: the markers in the payload are not looked for.
wrapsPasteUnchecked(pastedText) == isOversized(pastedText)

\* The text branch of handlePaste inserts the wrapped payload
wrapsPaste(pastedText) == ~containsMarker(pastedText) /\ isOversized(pastedText)

\* event.preventDefault() of the image branch
imagePrevents(images) == images > 0 /\ acceptsImageItems

\* paste on the textarea: a clipboard with `images` image items and the
\* plain-text payload pastedText
handlePaste(images, pastedText) ==
    /\ UserCan
    /\ Len(textArea.value) <= scope.maxLen
    /\ imagePrevents(images) => nextFile + images <= scope.maxFiles
    /\ IF imagePrevents(images)
       THEN /\ decodes' = decodes \cup NewFiles(images, "pasted")
            /\ nextFile' = nextFile + images
       ELSE UNCHANGED <<decodes, nextFile>>
    /\ IF wrapsPaste(pastedText)
       THEN /\ Room(1)
            /\ Commit(insertTextAtCursorPosition(Cur, modifiedText(pastedText),
                                                 isExpanded))
       ELSE UNCHANGED <<textValue, draftText, isTextEmpty, fileDataRef, isExpanded,
                        selectionRef, textArea, resizeTimeout, timeouts>>
    /\ LET prevented == imagePrevents(images) \/ wrapsPaste(pastedText)
       IN  /\ defaultAction' = IF ~prevented /\ pastedText # <<>>
                               THEN [kind |-> "insert", text |-> pastedText]
                               ELSE NoDefault
           /\ Did([op |-> "paste", images |-> images, text |-> pastedText,
                        start |-> textArea.selectionStart,
                        prevented |-> prevented,
                        inserted |-> wrapsPaste(pastedText)])
    /\ UNCHANGED <<loading, allowImageAttachment, picker>>

\* Mutation of appendFile: the store is kept in the order the files were
\* offered.
appendInOfferOrder(prev, file) ==
    LET before == SelectSeq(prev, LAMBDA f : f.id < file.id)
        after == SelectSeq(prev, LAMBDA f : f.id >= file.id)
    IN  before \o <<file>> \o after

\* The updater of both decode callbacks: prev => [...prev, file]
appendFile(prev, file) == Append(prev, file)

\* An image decode completes: setFileDataRef(prev => [...prev, file])
DecodeDone(file) ==
    /\ Idle
    /\ file \in decodes
    /\ file.source # "text"
    /\ decodes' = decodes \ {file}
    /\ fileDataRef' = appendFile(fileDataRef, file)
    /\ Did([op |-> "decoded", file |-> file])
    /\ UNCHANGED <<textValue, draftText, isTextEmpty, isExpanded, selectionRef,
                   textArea, resizeTimeout, timeouts, loading, allowImageAttachment,
                   nextFile, picker, defaultAction>>

(***************************************************************************)
(* Removal of attachments, and decode callbacks whose store update waits    *)
(* for the render React has scheduled.                                     *)
(***************************************************************************)
\* The callback of an image decode runs outside an event handler: its
\* updater prev => [...prev, file] is queued and a render is scheduled
DecodeCallback(file) ==
    /\ Idle
    /\ file \in decodes
    /\ file.source # "text"
    /\ decodes' = decodes \ {file}
    /\ storeUpdates' = Append(storeUpdates, file)
    /\ event' = [op |-> "decodedLater", file |-> file]
    /\ UNCHANGED <<textValue, draftText, isTextEmpty, fileDataRef, isExpanded,
                   selectionRef, textArea, resizeTimeout, timeouts, loading,
                   allowImageAttachment, nextFile, picker, defaultAction, scope,
                   parserVars>>

\* The queued updaters applied in queue order to a store
RECURSIVE applyUpdates(_, _)
applyUpdates(store, updates) ==
    IF updates = <<>> THEN store
    ELSE applyUpdates(appendFile(store, Head(updates)), Tail(updates))

\* The scheduled render runs: the queued updaters are applied
RenderStore ==
    /\ defaultAction = NoDefault
    /\ storeUpdates # <<>>
    /\ fileDataRef' = applyUpdates(fileDataRef, storeUpdates)
    /\ storeUpdates' = <<>>
    /\ event' = [op |-> "render"]
    /\ UNCHANGED <<textValue, draftText, isTextEmpty, isExpanded, selectionRef,
                   textArea, resizeTimeout, timeouts, loading, allowImageAttachment,
                   decodes, nextFile, picker, defaultAction, scope, parserVars>>

\* fileDataRef.filter((_, i) => i !== index), with the indices from 1
filterOut(store, index) ==
    [i \in 1..(Len(store) - 1) |-> IF i < index THEN store[i] ELSE store[i + 1]]

\* click on the remove button of the index-th preview: the handler is the one
\* of the render on screen, and sets the store to its fileDataRef filtered.
\* The value replaces what the updaters queued before it produce.
handleRemoveFileData(index) ==
    /\ UserCan
    /\ index \in DOMAIN fileDataRef
    /\ fileDataRef' = filterOut(fileDataRef, index)
    /\ storeUpdates' = <<>>
    /\ event' = [op |-> "remove", index |-> index, queued |-> Len(storeUpdates)]
    /\ UNCHANGED <<textValue, draftText, isTextEmpty, isExpanded, selectionRef,
                   textArea, resizeTimeout, timeouts, loading, allowImageAttachment,
                   decodes, nextFile, picker, defaultAction, scope, parserVars>>

(***************************************************************************)
(* The attachment picker.                                                  *)
(***************************************************************************)
\* click on the attachment button: the file dialog opens; its onchange
\* handler closes over the fileDataRef of this render
handleAttachment ==
    /\ UserCan
    /\ picker' = [open |-> TRUE, fileDataRef |-> fileDataRef]
    /\ Did([op |-> "attach"])
    /\ UNCHANGED <<textValue, draftText, isTextEmpty, fileDataRef, isExpanded,
                   selectionRef, textArea, resizeTimeout, timeouts, loading,
                   allowImageAttachment, decodes, nextFile, defaultAction>>

\* if (fileDataRef.length >= MAX_IMAGE_ATTACHMENTS_PER_MESSAGE) return;
pickerAccepts == Len(picker.fileDataRef) < MAX_IMAGE_ATTACHMENTS_PER_MESSAGE

\* onchange of the file input: `images` image files were chosen
PickFiles(images) ==
    /\ Idle
    /\ picker.open
    /\ nextFile + images <= scope.maxFiles
    /\ IF pickerAccepts
       THEN /\ decodes' = decodes \cup NewFiles(images, "filename")
            /\ nextFile' = nextFile + images
       ELSE UNCHANGED <<decodes, nextFile>>
    /\ picker' = NoPicker
    /\ Did([op |-> "picked", images |-> images])
    /\ UNCHANGED <<textValue, draftText, isTextEmpty, fileDataRef, isExpanded,
                   selectionRef, textArea, resizeTimeout, timeouts, loading,
                   allowImageAttachment, defaultAction>>

\* The user dismisses the file dialog
DismissPicker ==
    /\ Idle
    /\ picker.open
    /\ picker' = NoPicker
    /\ Did([op |-> "dismissed"])
    /\ UNCHANGED <<textValue, draftText, isTextEmpty, fileDataRef, isExpanded,
                   selectionRef, textArea, resizeTimeout, timeouts, loading,
                   allowImageAttachment, decodes, nextFile, defaultAction>>

(***************************************************************************)
(* Text files of the attachment picker.                                    *)
(***************************************************************************)
\* A text file being read: what readAsText will deliver, and the isExpanded
\* of the render whose handlers the reader's callbacks close over
TextFile(n, fileContent, readable) ==
    [id |-> n, source |-> "text", name |-> FileName, content |-> fileContent,
     readable |-> readable, expanded |-> isExpanded]

\* reader.result as the template literal prints it: the text read, or null
\* after a failed read
readerResult(file) ==
    IF file.readable THEN file.content ELSE <<"n", "u", "l", "l">>

\* onchange of the file input: one text file was chosen; reader.readAsText
PickTextFile(fileContent, readable) ==
    /\ Idle
    /\ picker.open
    /\ nextFile + 1 <= scope.maxFiles
    /\ readable \/ fileContent = <<>>
    /\ decodes' = decodes \cup {TextFile(nextFile + 1, fileContent, readable)}
    /\ nextFile' = nextFile + 1
    /\ picker' = NoPicker
    /\ Did([op |-> "picked", images |-> 0])
    /\ UNCHANGED <<textValue, draftText, isTextEmpty, fileDataRef, isExpanded,
                   selectionRef, textArea, resizeTimeout, timeouts, loading,
                   allowImageAttachment, defaultAction>>

\* Mutation of onloadend: the selection is not read back from the element
\* and no second cursor callback is set.
onloadendInsertOnly(s, file) ==
    insertTextAtCursorPosition(
        s, formattedText(file.name, readerResult(file)), file.expanded)

\* reader.onloadend: the block is inserted, the selection is read back from
\* the element, and a callback is set that puts the cursor at the end of the
\* text and resizes
onloadend(s, file) ==
    LET s1 == insertTextAtCursorPosition(
                  s, formattedText(file.name, readerResult(file)), file.expanded)
        s2 == [s1 EXCEPT !.selectionRef = widgetSelection(s1)]
    IN  [s2 EXCEPT !.timeouts =
             Append(@, [kind |-> "end", pos |-> Len(s2.textArea.value),
                        attached |-> TRUE, expanded |-> file.expanded])]

\* The read of a text file ends: a failed read fires error (reader.onerror
\* logs it) and then loadend, a successful one load and then loadend
ReadDone(file) ==
    /\ Idle
    /\ file \in decodes
    /\ file.source = "text"
    /\ Room(2)
    /\ decodes' = decodes \ {file}
    /\ Commit(onloadend(Cur, file))
    /\ Did([op |-> "loadend", readable |-> file.readable,
                 reported |-> ~file.readable,
                 text |-> formattedText(file.name, readerResult(file)),
                 start |-> textArea.selectionStart,
                 changed |-> onloadend(Cur, file).textArea.value # textArea.value])
    /\ UNCHANGED <<loading, allowImageAttachment, nextFile, picker, defaultAction>>

(***************************************************************************)
(* The imperative handle.                                                  *)
(***************************************************************************)
\* Mutation of clearValueAndUndoHistory: setFileDataRef([]) is missing.
clearValueKeepFiles(s, renderExpanded) ==
    LET s1 == [s EXCEPT !.textValue = <<>>]
        s2 == setTextAreaValue(s1, <<>>, renderExpanded)
    IN  [s2 EXCEPT !.draftText = <<>>, !.selectionRef = Sel(0, 0)]

clearValueAndUndoHistory(s, renderExpanded) ==
    LET s1 == [s EXCEPT !.fileDataRef = <<>>, !.textValue = <<>>]
        s2 == setTextAreaValue(s1, <<>>, renderExpanded)
    IN  [s2 EXCEPT !.draftText = <<>>, !.selectionRef = Sel(0, 0)]

getTextValue == textValue

clearInputValue ==
    /\ Idle
    /\ Commit(clearValueAndUndoHistory(Cur, isExpanded))
    /\ Did([op |-> "clearInputValue", wasExpanded |-> isExpanded,
                 hadText |-> textValue # <<>>, hadFiles |-> fileDataRef # <<>>])
    /\ UNCHANGED <<loading, allowImageAttachment, decodes, nextFile, picker,
                   defaultAction>>

reset ==
    /\ Idle
    /\ LET s1 == clearValueAndUndoHistory(Cur, isExpanded)
           s2 == [s1 EXCEPT !.textValue = <<>>]
           s3 == setTextAreaValue(s2, <<>>, isExpanded)
       IN  Commit([s3 EXCEPT !.fileDataRef = <<>>])
    /\ Did([op |-> "reset", wasExpanded |-> isExpanded,
                 hadText |-> textValue # <<>>, hadFiles |-> fileDataRef # <<>>])
    /\ UNCHANGED <<loading, allowImageAttachment, decodes, nextFile, picker,
                   defaultAction>>

resizeTextArea ==
    /\ Idle
    /\ textArea' = [textArea EXCEPT !.height = "auto"]
    /\ Did([op |-> "resizeTextArea"])
    /\ UNCHANGED <<textValue, draftText, isTextEmpty, fileDataRef, isExpanded,
                   selectionRef, resizeTimeout, timeouts, loading,
                   allowImageAttachment, decodes, nextFile, picker, defaultAction>>

focusTextarea ==
    /\ Idle
    /\ Room(1)
    /\ Commit(focusComposer(Cur))
    /\ Did([op |-> "focusTextarea"])
    /\ UNCHANGED <<loading, allowImageAttachment, decodes, nextFile, picker,
                   defaultAction>>

pasteText(insertedText) ==
    /\ Idle
    /\ Room(1)
    /\ Len(textArea.value) <= scope.maxLen
    /\ Commit(insertTextAtCursorPosition(Cur, insertedText, isExpanded))
    /\ Did([op |-> "pasteText", text |-> insertedText,
                 start |-> textArea.selectionStart])
    /\ UNCHANGED <<loading, allowImageAttachment, decodes, nextFile, picker,
                   defaultAction>>

(***************************************************************************)
(* Timers.                                                                 *)
(***************************************************************************)
\* The oldest setTimeout(..., 0) callback runs
RunTimeout ==
    /\ defaultAction = NoDefault
    /\ timeouts # <<>>
    /\ LET t == Head(timeouts)
           s == [Cur EXCEPT !.timeouts = Tail(@)]
           moved == IF t.kind = "restore" THEN setWidgetSelection(s, s.selectionRef)
                    ELSE IF t.attached THEN setWidgetSelection(s, Sel(t.pos, t.pos))
                    ELSE s
       IN  Commit(IF t.kind = "end" THEN handleAutoResize(moved, t.expanded)
                  ELSE moved)
    /\ Did([op |-> "timeout", after |-> Origin])
    /\ UNCHANGED <<loading, allowImageAttachment, decodes, nextFile, picker,
                   defaultAction>>

\* The debounced resize fires
FireResize ==
    /\ defaultAction = NoDefault
    /\ resizeTimeout.pending
    /\ Commit(handleAutoResize([Cur EXCEPT !.resizeTimeout = NoTimer],
                               resizeTimeout.expanded))
    /\ Did([op |-> "resize", after |-> Origin, timer |-> resizeTimeout.id])
    /\ UNCHANGED <<loading, allowImageAttachment, decodes, nextFile, picker,
                   defaultAction>>

(***************************************************************************)
(* The parser as a state machine: a stored message text, optionally one    *)
(* the composer wrapped, is rendered by UserContentBlock.                  *)
(***************************************************************************)
Pieces ==
    {SNIPPET_MARKERS_begin, SNIPPET_MARKERS_end} \cup {<<c>> : c \in Char}

RECURSIVE Concats(_)
Concats(n) ==
    IF n = 0 THEN {<<>>}
    ELSE LET shorter == Concats(n - 1)
         IN  shorter \cup {s \o p : s \in shorter, p \in Pieces}

ParserInputs == Concats(MaxPieces)

\* The composer as mounted: the first render is collapsed and its effect has
\* run
Mounted(allow, sc) ==
    /\ scope = sc
    /\ textValue = <<>>
    /\ draftText = <<>>
    /\ isTextEmpty = TRUE
    /\ fileDataRef = <<>>
    /\ isExpanded = FALSE
    /\ selectionRef = Sel(0, 0)
    /\ textArea = [value |-> <<>>, selectionStart |-> 0, selectionEnd |-> 0,
                   height |-> "auto"]
    /\ resizeTimeout = NoTimer
    /\ timeouts = <<[kind |-> "restore"]>>
    /\ loading = FALSE
    /\ allowImageAttachment = allow
    /\ decodes = {}
    /\ nextFile = 0
    /\ picker = NoPicker
    /\ storeUpdates = <<>>
    /\ defaultAction = NoDefault
    /\ event = [op |-> "mount"]

NothingStored ==
    /\ text = <<>>
    /\ wrapped = NoText
    /\ content = NotRendered
    /\ stage = "stored"

ParserInit ==
    /\ text \in ParserInputs
    /\ wrapped = NoText
    /\ content = NotRendered
    /\ stage = "stored"
    /\ Mounted("yes", KeysScope)

\* The oversized-paste wrapping applied to a marker-free payload
WrapPayload ==
    /\ stage = "stored"
    /\ ~containsMarker(text)
    /\ wrapped' = text
    /\ text' = modifiedText(text)
    /\ stage' = "wrapped"
    /\ UNCHANGED <<content, composerVars>>

\* const content = processText(text)
Render ==
    /\ stage \in {"stored", "wrapped"}
    /\ content' = processText(text)
    /\ stage' = "rendered"
    /\ UNCHANGED <<text, wrapped, composerVars>>

ParserNext == WrapPayload \/ Render

vars == <<composerVars, parserVars>>

ParserSpec == ParserInit /\ [][ParserNext]_vars

(***************************************************************************)
(* The composer as a state machine.                                        *)
(***************************************************************************)
Start(sc) ==
    /\ \E allow \in {"yes", "no", "warn"} : Mounted(allow, sc)
    /\ NothingStored

Typing ==
    \/ \E c \in scope.keys : TypeChar(c)
    \/ DeleteBackward
    \/ \E a, b \in CursorStops(textArea.value) : MoveCursor(a, b)
    \/ NativeDefault

Sending ==
    \/ \E shiftKey \in BOOLEAN : checkForSpecialKey(shiftKey)
    \/ handleSubmit
    \/ handleCancel
    \/ HostSetLoading

Modes ==
    \/ ExpandClick
    \/ CollapseClick
    \/ handleGlobalShortcut

Pasting ==
    \/ \E images \in 0..scope.maxItems, pastedText \in scope.payloads :
           handlePaste(images, pastedText)
    \/ \E file \in decodes : DecodeDone(file)

Picking ==
    \/ handleAttachment
    \/ \E images \in 1..scope.maxItems : PickFiles(images)
    \/ DismissPicker

Timers ==
    \/ RunTimeout
    \/ FireResize

\* Typing, keys, the form and the modes, with at most one attachment
KeysNext == Typing \/ Sending \/ Modes \/ Pasting \/ Timers

KeysSpec == Start(KeysScope) /\ [][KeysNext]_vars

\* Clipboard payloads pasted at the selections of a short text
PasteNext == Typing \/ Pasting \/ Timers

PasteSpec == Start(PasteScope) /\ [][PasteNext]_vars

\* Image files pasted and picked
FilesNext == Typing \/ Pasting \/ Picking \/ Timers

FilesSpec == Start(FilesScope) /\ [][FilesNext]_vars

Handles ==
    \/ clearInputValue
    \/ reset
    \/ resizeTextArea
    \/ focusTextarea
    \/ \E insertedText \in scope.payloads : pasteText(insertedText)

TextPicking ==
    \/ \E fileContent \in scope.payloads, readable \in BOOLEAN :
           PickTextFile(fileContent, readable)
    \/ \E file \in decodes : ReadDone(file)

\* The handle, with typing, the clipboard, the image picker and the form
HandleNext == Typing \/ Sending \/ Pasting \/ Picking \/ Handles \/ Timers

HandleSpec == Start(HandleScope) /\ [][HandleNext]_vars

\* clearInputValue and reset in either mode, loading or not
ClearNext ==
    \/ \E c \in scope.keys : TypeChar(c)
    \/ DeleteBackward
    \/ \E a, b \in CursorStops(textArea.value) : MoveCursor(a, b)
    \/ Modes
    \/ Pasting
    \/ HostSetLoading
    \/ clearInputValue
    \/ reset
    \/ Timers

ClearSpec == Start(ClearScope) /\ [][ClearNext]_vars

\* Programmatic insertions: oversized pastes, pasteText, picked text files
InsertNext ==
    \/ \E c \in scope.keys : TypeChar(c)
    \/ \E a, b \in CursorStops(textArea.value) : MoveCursor(a, b)
    \/ NativeDefault
    \/ \E pastedText \in scope.payloads : handlePaste(0, pastedText)
    \/ \E insertedText \in scope.payloads : pasteText(insertedText)
    \/ handleAttachment
    \/ DismissPicker
    \/ TextPicking
    \/ Timers

InsertInit == Mounted("yes", InsertScope) /\ NothingStored

InsertSpec == InsertInit /\ [][InsertNext]_vars

\* The modes while timers are pending: the text is edited and the cursor
\* moved only in the collapsed mode, so that in the expanded mode the recorded
\* Selection is the one handleExpandEditor took
LazyNext ==
    \/ ~isExpanded /\ \E c \in scope.keys : TypeChar(c)
    \/ ~isExpanded /\ \E a, b \in CursorStops(textArea.value) : MoveCursor(a, b)
    \/ Modes
    \/ Timers

LazySpec == Start(LazyScope) /\ [][LazyNext]_vars

\* Images pasted, decoded and removed; a decode callback renders at once or
\* leaves its update queued
RemoveNext ==
    \/ \E images \in 1..scope.maxItems : handlePaste(images, <<>>)
    \/ \E file \in decodes : storeUpdates = <<>> /\ DecodeDone(file)
    \/ \E file \in decodes : DecodeCallback(file)
    \/ RenderStore
    \/ \E index \in 1..MaxFiles : handleRemoveFileData(index)
    \/ RunTimeout

RemoveSpec == Start(RemoveScope) /\ [][RemoveNext]_vars

\* Marker-free typing, pastes of marker-free text and picked marker-free text
\* files, with the cursor put anywhere in the text
NestNext ==
    \/ \E c \in scope.keys : TypeChar(c)
    \/ \E a \in 0..Len(textArea.value) : MoveCursor(a, a)
    \/ \E pastedText \in scope.payloads : handlePaste(0, pastedText)
    \/ handleAttachment
    \/ DismissPicker
    \/ TextPicking
    \/ Timers

NestInit == Mounted("yes", NestScope) /\ NothingStored

NestSpec == NestInit /\ [][NestNext]_vars

\* Resize requests of typing and of the handle while the debounce timer is
\* pending
DebounceNext ==
    \/ \E c \in scope.keys : TypeChar(c)
    \/ DeleteBackward
    \/ clearInputValue
    \/ reset
    \/ Timers

\* A timer the browser has set and nothing clears fires
DebounceFairness ==
    /\ \A i \in 0..(ResizeTimerIds - 1) :
           WF_vars(FireResize /\ resizeTimeout.id = i)
    /\ WF_vars(RunTimeout)

DebounceSpec == Start(DebounceScope) /\ [][DebounceNext]_vars /\ DebounceFairness

(***************************************************************************)
(* Properties.                                                             *)
(***************************************************************************)
SnippetsOf(segs) == SelectSeq(segs, LAMBDA x : x.kind = "Snippet")

C2_AttachmentCap ==
    /\ Len(fileDataRef) <= MAX_IMAGE_ATTACHMENTS_PER_MESSAGE
    /\ (nextFile > MAX_IMAGE_ATTACHMENTS_PER_MESSAGE /\ decodes = {})
           => Len(fileDataRef) = MAX_IMAGE_ATTACHMENTS_PER_MESSAGE

\* The last handler invoked the send callback: a plain Enter or a form submit
Submitted ==
    \/ event.op = "submit"
    \/ event.op = "keydown" /\ event.calls # <<>>

\* C3: right after a submit (plain Enter or form submission) the Attachment
\* Store is empty, as the Buffer is.
C3_SubmitEmptiesStore == Submitted => (fileDataRef = <<>> /\ textValue = <<>>)

\* C4: the send callback is never invoked while loading is true, by plain
\* Enter or by form submission.
C4_NoSendWhileLoading ==
    Submitted => \A i \in DOMAIN event.calls : ~event.calls[i].loading

\* A non-empty text was sent together with an attachment.
C4_Witness ==
    /\ Submitted
    /\ Len(event.calls) = 1
    /\ event.calls[1].text # <<>>
    /\ event.calls[1].attachments # <<>>

\* C5 (as stated): right after a submit and right after a cancel the mode is
\* collapsed.
C5_SubmitOrCancelCollapses == (Submitted \/ event.op = "cancel") => ~isExpanded

\* C5 (amended): right after a submit the mode is collapsed, from either
\* mode; a cancel leaves the mode as it was.
C5_SubmitCollapsesCancelKeeps ==
    /\ Submitted => ~isExpanded
    /\ event.op = "cancel" => isExpanded = event.wasExpanded

\* A submit was made from the expanded mode.
C5_Witness == Submitted /\ event.wasExpanded /\ ~isExpanded

\* C6: a plain Enter while not loading invokes the send callback exactly once
\* with the Buffer's text, whatever the text (empty and whitespace-only
\* included), and leaves the Buffer empty, the is-empty flag true, the
\* recorded Selection {0, 0} and the mode collapsed.
C6_PlainEnterSends ==
    [][(event'.op = "keydown" /\ ~event'.shiftKey /\ ~loading) =>
           /\ Len(event'.calls) = 1
           /\ event'.calls[1].text = textValue
           /\ textValue' = <<>>
           /\ draftText' = <<>>
           /\ textArea'.value = <<>>
           /\ isTextEmpty' = TRUE
           /\ selectionRef' = Sel(0, 0)
           /\ isExpanded' = FALSE]_vars

\* A whitespace-only text was sent by plain Enter.
C6_Witness ==
    /\ event.op = "keydown"
    /\ Len(event.calls) = 1
    /\ event.calls[1].text = NL
    /\ textValue = <<>>

\* C7: the keydown handler of Enter with Shift held, and of plain Enter while
\* loading, invokes no send and leaves the composer's state (Buffer, draft,
\* is-empty flag, Attachment Store, mode, loading, recorded Selection, the
\* element) as it was; the newline is the browser's default action.
C7_ShiftEnterNeverSubmits ==
    [][(event'.op = "keydown" /\ (event'.shiftKey \/ loading)) =>
           /\ event'.calls = <<>>
           /\ ~event'.prevented
           /\ defaultAction' = [kind |-> "insert", text |-> NL]
           /\ UNCHANGED <<textValue, draftText, isTextEmpty, fileDataRef,
                          isExpanded, loading, selectionRef, textArea,
                          resizeTimeout, timeouts, decodes>>]_vars

\* Enter was pressed with Shift held on a non-empty text while not loading.
C7_Witness ==
    /\ event.op = "keydown"
    /\ event.shiftKey
    /\ ~event.wasLoading
    /\ event.calls = <<>>
    /\ textValue # <<>>

\* The oversized-paste condition, as the claim words it
OversizedPayload(P) ==
    newlineCount(P) >= MAX_ROWS \/ Len(P) > COLUMNS_PER_ROW * MAX_ROWS

\* C8: a marker-free payload P is wrapped iff it has MAX_ROWS newlines or more
\* or is longer than COLUMNS_PER_ROW * MAX_ROWS; when wrapped the native paste
\* is suppressed and the Buffer becomes prefix + BEGIN \n P \n END \n + suffix,
\* prefix and suffix being the old Buffer before the selection's start and
\* after its end; when not wrapped the handler leaves the Buffer alone.
C8_OversizedPasteWrapped ==
    [][(event'.op = "paste" /\ ~containsMarker(event'.text)) =>
           LET P == event'.text
               prefix == SubSeq(textValue, 1, textArea.selectionStart)
               suffix == SubSeq(textValue, textArea.selectionEnd + 1, Len(textValue))
               block == SNIPPET_MARKERS_begin \o <<"\n">> \o P \o <<"\n">>
                            \o SNIPPET_MARKERS_end \o <<"\n">>
           IN  IF OversizedPayload(P)
               THEN /\ event'.prevented
                    /\ defaultAction' = NoDefault
                    /\ textValue' = prefix \o block \o suffix
                    /\ draftText' = textValue'
                    /\ textArea'.value = textValue'
               ELSE /\ textValue' = textValue
                    /\ textArea'.value = textArea.value]_vars

\* An oversized payload was wrapped between a non-empty prefix and a
\* non-empty suffix.
C8_Witness ==
    /\ event.op = "paste"
    /\ event.inserted
    /\ Len(textValue) = Len(event.text) + 2 * Len(SNIPPET_MARKERS_begin) + 3 + 2
    /\ textValue[1] = "a"
    /\ textValue[Len(textValue)] = "a"

\* C9: when the payload contains a marker the paste handler does nothing for
\* the text, whatever its size: no insert, no change of Buffer, element or
\* recorded Selection, and the native paste is suppressed only when an image
\* item is ingested; the native paste then inserts the payload as it is.
C9_MarkerPayloadUntouched ==
    [][/\ (event'.op = "paste" /\ containsMarker(event'.text)) =>
              /\ UNCHANGED <<textValue, draftText, isTextEmpty, selectionRef,
                             textArea, resizeTimeout, timeouts>>
              /\ event'.prevented = (event'.images > 0 /\ allowImageAttachment # "no")
              /\ defaultAction' = IF event'.prevented THEN NoDefault
                                  ELSE [kind |-> "insert", text |-> event'.text]
       /\ event'.op = "default" =>
              textValue' = SubSeq(textValue, 1, textArea.selectionStart)
                               \o defaultAction.text
                               \o SubSeq(textValue, textArea.selectionEnd + 1,
                                         Len(textValue))]_vars

\* An oversized payload holding both markers was pasted natively.
C9_Witness ==
    /\ event.op = "default"
    /\ includes(event.text, SNIPPET_MARKERS_begin)
    /\ includes(event.text, SNIPPET_MARKERS_end)
    /\ OversizedPayload(event.text)
    /\ includes(textValue, event.text)

\* C10: a paste whose payload has no marker and is not oversized is left to
\* the native paste, with or without image items in the same clipboard event.
C10_ShortPastePassesThrough ==
    (/\ event.op = "paste"
     /\ event.text # <<>>
     /\ ~containsMarker(event.text)
     /\ ~OversizedPayload(event.text)) =>
        /\ ~event.prevented
        /\ defaultAction = [kind |-> "insert", text |-> event.text]

\* The handler was a programmatic insertion
Insertion(e) ==
    \/ e.op = "paste" /\ e.inserted
    \/ e.op = "pasteText"
    \/ e.op = "loadend"

InsertedText(e) == IF e.op = "paste" THEN modifiedText(e.text) ELSE e.text

\* The last handler was a programmatic insertion, and the callbacks it
\* deferred have run
Settled == Quiet /\ event.op \in {"timeout", "resize"} /\ Insertion(Origin)

\* C11: once a programmatic insertion (oversized paste, pasteText,
\* picked text file) at the selection {start, end} and its deferred callbacks
\* have completed, the recorded Selection and the widget cursor are both the
\* point start + len(inserted).
C11_CursorAfterInserted ==
    Settled =>
        LET p == Origin.start + Len(InsertedText(Origin))
        IN  /\ selectionRef = Sel(p, p)
            /\ widgetSelection(Cur) = Sel(p, p)

\* What the code does instead: after an oversized paste or pasteText both are
\* the point start + len(inserted); after a picked text file the widget cursor
\* is at the end of the Buffer, and the recorded Selection is the end of the
\* Buffer too, or the replaced range {start, start + len(inserted)} when the
\* block replaced a selected copy of itself.
CursorAfterInsertedOrAtEnd ==
    Settled =>
        LET p == Origin.start + Len(InsertedText(Origin))
            n == Len(textValue)
        IN  IF Origin.op = "loadend"
            THEN /\ widgetSelection(Cur) = Sel(n, n)
                 /\ selectionRef = IF Origin.changed THEN Sel(n, n)
                                   ELSE Sel(Origin.start, p)
            ELSE /\ selectionRef = Sel(p, p)
                 /\ widgetSelection(Cur) = Sel(p, p)

\* A picked text file was inserted in the middle of a non-empty Buffer.
InsertedInTheMiddle ==
    /\ Settled
    /\ Origin.op = "loadend"
    /\ Origin.readable
    /\ Origin.start > 0
    /\ Origin.start + Len(Origin.text) < Len(textValue)

\* C18: when reading a picked text file fails, the failure is reported and
\* the completion callbacks of the reader change neither the Buffer nor the
\* Attachment Store.
C18_UnreadableFileIgnored ==
    [][(event'.op = "loadend" /\ ~event'.readable) =>
           /\ event'.reported
           /\ textValue' = textValue
           /\ fileDataRef' = fileDataRef]_vars

\* C12: in every state reached by typing, pasting, programmatic insertion,
\* submit, clear and reset, the is-empty flag is true iff the trimmed Buffer
\* is the empty string.
C12_EmptyFlagIsTrimmedEmpty == isTextEmpty = (trim(textValue) = <<>>)

\* pasteText left a Buffer of whitespace only: not empty, but flagged empty.
C12_Witness ==
    /\ Origin.op = "pasteText"
    /\ textValue # <<>>
    /\ trim(textValue) = <<>>
    /\ isTextEmpty

\* The step is a call of clearInputValue or reset of the handle
Cleared == event'.op \in {"clearInputValue", "reset"}

\* C16: clearInputValue and reset, called in any state, leave the Buffer
\* empty (getTextValue returns ""), the Attachment Store empty, the Selection
\* {0, 0} and the is-empty flag true, and change neither the composition mode
\* nor the loading flag.
C16_ClearEmptiesAll ==
    [][Cleared =>
           /\ getTextValue' = <<>>
           /\ fileDataRef' = <<>>
           /\ selectionRef' = Sel(0, 0)
           /\ isTextEmpty'
           /\ isExpanded' = isExpanded
           /\ loading' = loading]_vars

\* The handle cleared an expanded, loading composer that held text and an
\* attachment.
C16_Witness ==
    /\ event.op \in {"clearInputValue", "reset"}
    /\ event.wasExpanded
    /\ event.hadText
    /\ event.hadFiles
    /\ loading
    /\ isExpanded
    /\ textValue = <<>>
    /\ fileDataRef = <<>>

\* C17: with allowImageAttachment = "no", a paste adds no attachment (none
\* is being decoded, none is stored) and is prevented only when its text was
\* inserted wrapped, whatever image items the clipboard holds; and every
\* submit passes an empty attachment list to callApp.
C17_DisallowedImagesIgnored ==
    [][allowImageAttachment = "no" =>
           /\ event'.op = "paste" =>
                  /\ decodes' = decodes
                  /\ nextFile' = nextFile
                  /\ fileDataRef' = fileDataRef
                  /\ event'.prevented => event'.inserted
           /\ event' # event /\ "calls" \in DOMAIN event' =>
                  \A i \in DOMAIN event'.calls :
                      event'.calls[i].attachments = <<>>]_vars

\* Image attachments are disallowed, an image picked from the file dialog is
\* stored, and a clipboard with an image item was pasted: the paste was not
\* prevented and nothing is being decoded.
C17_Witness ==
    /\ allowImageAttachment = "no"
    /\ event.op = "paste"
    /\ event.images > 0
    /\ ~event.prevented
    /\ fileDataRef # <<>>
    /\ decodes = {}

\* C13: with no edit and no cursor move between an expand and the collapse
\* that follows it, the Selection recorded by the collapse is the Selection
\* the expand recorded, whether or not the deferred restore callbacks have run
\* when the collapse event arrives.
C13_CollapseRestoresSelection ==
    [][(isExpanded /\ ~isExpanded') => selectionRef' = selectionRef]_vars

\* C14: the global shortcut toggles the mode (collapsed to expanded, expanded
\* to collapsed) and changes neither the Buffer nor the Attachment Store.
C14_ShortcutToggles ==
    [][event'.op = "shortcut" =>
           /\ isExpanded' = ~isExpanded
           /\ textArea'.value = textArea.value
           /\ UNCHANGED <<textValue, draftText, isTextEmpty, fileDataRef>>]_vars

\* The shortcut collapsed an expanded composer that holds a text and an
\* attachment.
C14_Witness ==
    /\ event.op = "shortcut"
    /\ ~isExpanded
    /\ textValue # <<>>
    /\ fileDataRef # <<>>

\* C15: a cancel happens only while loading, signals cancelStream once, sets
\* loading to false and leaves the Buffer, the is-empty flag, the recorded
\* Selection, the Attachment Store and the element as they were.
C15_CancelOnlyStops ==
    [][event'.op = "cancel" =>
           /\ loading
           /\ ~loading'
           /\ event'.cancelStream = 1
           /\ UNCHANGED <<textValue, draftText, isTextEmpty, selectionRef,
                          fileDataRef, textArea>>]_vars

\* A send was cancelled while the composer held a text and an attachment.
C15_Witness ==
    /\ event.op = "cancel"
    /\ ~loading
    /\ textValue # <<>>
    /\ fileDataRef # <<>>

\* C19: the parser returns a list of Prose and Snippet segments for every
\* text; a text without a marker yields the one Prose segment equal to it; a
\* piece that follows a begin marker and holds no end marker is emitted whole
\* as Prose, so there are no more Snippets than pieces holding an end marker.
C19_ParserLenient ==
    stage = "rendered" =>
        LET pieces == split(text, SNIPPET_MARKERS_begin)
            closed == {i \in DOMAIN pieces : includes(pieces[i], SNIPPET_MARKERS_end)}
        IN  /\ \A j \in DOMAIN content : content[j].kind \in {"Prose", "Snippet"}
            /\ ~containsMarker(text) => content = <<Prose(text)>>
            /\ \A i \in 2..Len(pieces) :
                   i \notin closed =>
                       \E j \in DOMAIN content : content[j] = Prose(pieces[i])
            /\ Len(SnippetsOf(content)) <= Cardinality(closed)

\* A text with a begin marker and no end marker was rendered: its last piece,
\* not empty, is the last Prose segment.
C19_Witness ==
    /\ stage = "rendered"
    /\ wrapped = NoText
    /\ includes(text, SNIPPET_MARKERS_begin)
    /\ ~includes(text, SNIPPET_MARKERS_end)
    /\ Len(content) >= 2
    /\ content[Len(content)].kind = "Prose"
    /\ content[Len(content)].text # <<>>

\* C20: every Snippet segment is text that the input holds immediately after
\* a begin marker and immediately before an end marker.
C20_SnippetsInsidePairs ==
    stage = "rendered" =>
        \A j \in DOMAIN content :
            content[j].kind = "Snippet" =>
                includes(text, SNIPPET_MARKERS_begin \o content[j].text
                                   \o SNIPPET_MARKERS_end)

\* The files of a sequence of attachments
StoredFiles(store) == {store[i] : i \in DOMAIN store}

\* C21: image decodes that are in flight together are appended to the
\* Attachment Store in the order they complete, and none is lost: each
\* completion appends its attachment after the prior store, and each file
\* offered is either still being decoded or in the store exactly once.
C21_AppendsInCompletionOrder ==
    /\ [](/\ Cardinality(StoredFiles(fileDataRef)) = Len(fileDataRef)
          /\ StoredFiles(fileDataRef) \cap decodes = {}
          /\ {f.id : f \in StoredFiles(fileDataRef) \cup decodes} = 1..nextFile)
    /\ [][event'.op = "decoded" =>
              /\ event'.file \in decodes
              /\ decodes' = decodes \ {event'.file}
              /\ fileDataRef' = fileDataRef \o <<event'.file>>]_vars

\* Two decodes were in flight together and the one offered later completed
\* first: the store holds them in completion order.
C21_Witness ==
    /\ event.op = "decoded"
    /\ Len(fileDataRef) >= 2
    /\ fileDataRef[Len(fileDataRef)].id < fileDataRef[Len(fileDataRef) - 1].id
    /\ \E f \in decodes : f.id > fileDataRef[Len(fileDataRef)].id

\* C22: after every mutation completes (typing, native paste, programmatic
\* insertion, submit, clear, reset) the value getTextValue returns, the
\* rendered draft text and the content of the input widget are equal.
C22_BufferDraftWidgetEqual ==
    defaultAction = NoDefault =>
        /\ getTextValue = draftText
        /\ draftText = textArea.value

\* A text was pasted natively into a Buffer that held text already.
C22_Witness ==
    /\ event.op = "default"
    /\ event.text = <<"a">>
    /\ textValue # event.text
    /\ getTextValue = textArea.value
    /\ draftText = textArea.value

\* C23: a height recomputation matches the composition mode current when it
\* runs: it leaves "fill the available space" iff the mode is expanded and the
\* fitted, clamped height iff it is collapsed, also when the debounced
\* recomputation was scheduled before a mode transition and fires after it.
C23_ResizeMatchesMode ==
    [][event'.op = "resize" =>
           textArea'.height = IF isExpanded' THEN "100%" ELSE "px"]_vars

\* C24: at most one resize timer is pending; each resize request cancels the
\* pending timer and sets its own, so a burst of requests with no timer firing
\* in between leads to exactly one height recomputation (a recomputation
\* consumes the one pending timer), and a timer that no new request cancels
\* eventually fires.
C24_ResizeDebounced ==
    /\ [][/\ event'.op = "resize" =>
                 /\ resizeTimeout.pending
                 /\ event'.timer = resizeTimeout.id
                 /\ resizeTimeout' = NoTimer
          /\ (event'.op \in {"input", "pasteText", "clearInputValue", "reset"}) =>
                 /\ resizeTimeout'.pending
                 /\ resizeTimeout.pending => resizeTimeout'.id # resizeTimeout.id]_vars
    /\ \A i \in 0..(ResizeTimerIds - 1) :
           (resizeTimeout.pending /\ resizeTimeout.id = i)
               ~> (~resizeTimeout.pending \/ resizeTimeout.id # i)

\* Three requests were made with no timer firing in between, and the one
\* recomputation of the burst, that of the third timer, has run.
C24_Witness ==
    /\ event.op = "resize"
    /\ event.timer = 2
    /\ ~resizeTimeout.pending

\* C25: under each setting that lets images in ("yes" and "warn"), every
\* attachment that is in the Attachment Store when the message is submitted
\* is in the attachment list passed to callApp.
C25_StoredImagesAreSent ==
    [][("calls" \in DOMAIN event' /\ allowImageAttachment \in {"yes", "warn"}) =>
           \A i \in DOMAIN event'.calls :
               event'.calls[i].attachments = fileDataRef]_vars

\* The texts of the segments, concatenated in output order
RECURSIVE SegmentTexts(_)
SegmentTexts(segs) ==
    IF segs = <<>> THEN <<>> ELSE Head(segs).text \o SegmentTexts(Tail(segs))

\* A piece with its first end marker removed
WithoutFirstEnd(piece) ==
    LET i == indexOf(piece, SNIPPET_MARKERS_end)
    IN  IF i = -1 THEN piece
        ELSE substring(piece, 0, i) \o substringFrom(piece, i + Len(SNIPPET_MARKERS_end))

\* The pieces between the begin markers, each without its first end marker,
\* concatenated
RECURSIVE WithoutMarkers(_)
WithoutMarkers(pieces) ==
    IF pieces = <<>> THEN <<>>
    ELSE WithoutFirstEnd(Head(pieces)) \o WithoutMarkers(Tail(pieces))

\* C26: for every input, no segment contains the begin marker, no Snippet
\* contains the end marker, and the segment texts concatenated in output order
\* are the input with every begin marker removed and, in each piece between
\* begin markers, only the first end marker removed.
C26_ParserConservesCharacters ==
    stage = "rendered" =>
        /\ \A i \in DOMAIN content :
               /\ ~includes(content[i].text, SNIPPET_MARKERS_begin)
               /\ content[i].kind = "Snippet" =>
                      ~includes(content[i].text, SNIPPET_MARKERS_end)
        /\ SegmentTexts(content) =
               WithoutMarkers(split(text, SNIPPET_MARKERS_begin))

\* A text with a begin marker and two end markers after it was rendered: the
\* second end marker stays, in the Prose that follows the Snippet.
C26_Witness ==
    /\ stage = "rendered"
    /\ includes(text, SNIPPET_MARKERS_begin)
    /\ \E i \in DOMAIN content :
           /\ content[i].kind = "Snippet"
           /\ i + 1 \in DOMAIN content
           /\ content[i + 1].kind = "Prose"
           /\ includes(content[i + 1].text, SNIPPET_MARKERS_end)

\* The store once the queued updaters are applied
EventualStore == applyUpdates(fileDataRef, storeUpdates)

\* C27: removing an attachment removes exactly the one at the chosen index
\* and keeps every other attachment in order, the attachments of decodes that
\* completed before the click and are not rendered yet included.
C27_RemoveOnlyTheChosen ==
    [][event'.op = "remove" =>
           EventualStore' = filterOut(EventualStore, event'.index)]_vars

\* The markers of a text, read from left to right
RECURSIVE MarkersOf(_)
MarkersOf(s) ==
    IF s = <<>> THEN <<>>
    ELSE IF OccursAt(s, SNIPPET_MARKERS_begin, 0)
         THEN <<"begin">> \o MarkersOf(substringFrom(s, Len(SNIPPET_MARKERS_begin)))
         ELSE IF OccursAt(s, SNIPPET_MARKERS_end, 0)
              THEN <<"end">> \o MarkersOf(substringFrom(s, Len(SNIPPET_MARKERS_end)))
              ELSE MarkersOf(Tail(s))

\* Begin and end markers alternate strictly, starting with begin and ending
\* with end
Alternating(markers) ==
    /\ Len(markers) % 2 = 0
    /\ \A i \in DOMAIN markers :
           markers[i] = IF i % 2 = 1 THEN "begin" ELSE "end"

\* C28: from an empty Buffer, after marker-free typing, pastes of marker-free
\* text at arbitrary selections and picked marker-free text files, the markers
\* of the Buffer are balanced and not nested: begin and end markers alternate
\* strictly, starting with begin.
C28_MarkersWellFormed == Alternating(MarkersOf(textValue))

=============================================================================
